---------------------------- MODULE Spec2Model ----------------------------
(***************************************************************************)
(* Waveform acquisition of the Rigol DS1000Z driver:                       *)
(* _Rigol1000zChannel.get_data and get_data_premable, Rigol1000z's         *)
(* transport wrappers (visa_write, visa_ask, visa_ask_raw) and             *)
(* get_screenshot, in src/Rigol1000z/rigol1000z.py.                        *)
(*                                                                         *)
(* One transport call is one step.  The instrument behind the transport is *)
(* a deterministic stub fixed in Init (its preamble reply and the way one  *)
(* of its block replies may deviate from the framed form); a transport     *)
(* call may also raise at any step.                                        *)
(***************************************************************************)
EXTENDS Integers, Sequences, FiniteSets, TLC

\* ---- natural numbers of any size: sequences of limbs in base LimbBase, least
\* ---- significant limb first, no zero limb at the high end (zero is <<>>);
\* ---- Python's int, and the integer arithmetic inside its float operations
LimbBits == 15
LimbBase == 2 ^ LimbBits

RECURSIVE LNorm(_)
LNorm(a) == IF a = <<>> THEN <<>>
            ELSE IF a[Len(a)] = 0 THEN LNorm(SubSeq(a, 1, Len(a) - 1)) ELSE a

RECURSIVE LFromNat(_)
LFromNat(n) == IF n = 0 THEN <<>> ELSE <<n % LimbBase>> \o LFromNat(n \div LimbBase)

RECURSIVE LToNat(_)
LToNat(a) == IF a = <<>> THEN 0 ELSE a[1] + LimbBase * LToNat(Tail(a))

LLimb(a, k) == IF k >= 1 /\ k <= Len(a) THEN a[k] ELSE 0
LRest(a) == IF a = <<>> THEN <<>> ELSE Tail(a)

RECURSIVE LAddC(_, _, _)
LAddC(a, b, c) ==
    IF a = <<>> /\ b = <<>> THEN (IF c = 0 THEN <<>> ELSE <<c>>)
    ELSE LET s == LLimb(a, 1) + LLimb(b, 1) + c
         IN  <<s % LimbBase>> \o LAddC(LRest(a), LRest(b), s \div LimbBase)
LAdd(a, b) == LAddC(a, b, 0)

\* -1, 0, 1 as a < b, a = b, a > b
RECURSIVE LCmpAt(_, _, _)
LCmpAt(a, b, k) == IF k = 0 THEN 0
                   ELSE IF a[k] > b[k] THEN 1
                   ELSE IF a[k] < b[k] THEN -1
                   ELSE LCmpAt(a, b, k - 1)
LCmp(a, b) == IF Len(a) > Len(b) THEN 1
              ELSE IF Len(a) < Len(b) THEN -1
              ELSE LCmpAt(a, b, Len(a))

\* a - b for a >= b
RECURSIVE LSubC(_, _, _)
LSubC(a, b, c) ==
    IF a = <<>> THEN <<>>
    ELSE LET d == a[1] - LLimb(b, 1) - c
         IN  <<d % LimbBase>> \o LSubC(Tail(a), LRest(b), IF d < 0 THEN 1 ELSE 0)
LSub(a, b) == LNorm(LSubC(a, b, 0))

\* a * d for one limb d
RECURSIVE LMulSmallC(_, _, _)
LMulSmallC(a, d, c) ==
    IF a = <<>> THEN (IF c = 0 THEN <<>> ELSE <<c>>)
    ELSE LET p == a[1] * d + c
         IN  <<p % LimbBase>> \o LMulSmallC(Tail(a), d, p \div LimbBase)
LMulSmall(a, d) == IF d = 0 THEN <<>> ELSE LMulSmallC(a, d, 0)

LShiftLimbs(a, k) == IF a = <<>> THEN <<>> ELSE [j \in 1..k |-> 0] \o a

RECURSIVE LMul(_, _)
LMul(a, b) == IF a = <<>> \/ b = <<>> THEN <<>>
              ELSE LAdd(LMulSmall(b, a[1]), LShiftLimbs(LMul(Tail(a), b), 1))

LPow2(k) == LShiftLimbs(<<2 ^ (k % LimbBits)>>, k \div LimbBits)

RECURSIVE NatBitLen(_)
NatBitLen(n) == IF n = 0 THEN 0 ELSE 1 + NatBitLen(n \div 2)
LBitLen(a) == IF a = <<>> THEN 0 ELSE LimbBits * (Len(a) - 1) + NatBitLen(a[Len(a)])

\* the largest limb d in lo..hi with b * d <= r (b * lo <= r is given)
RECURSIVE LQuotDigit(_, _, _, _)
LQuotDigit(r, b, lo, hi) ==
    IF lo = hi THEN lo
    ELSE LET mid == (lo + hi + 1) \div 2
         IN  IF LCmp(LMulSmall(b, mid), r) <= 0
             THEN LQuotDigit(r, b, mid, hi)
             ELSE LQuotDigit(r, b, lo, mid - 1)

\* long division, one limb of a at a time from the high end: <<quotient, remainder>>
LDivOut(b, q, r, d) == << <<d>> \o q, LSub(r, LMulSmall(b, d)) >>
LDivDigit(b, q, r) == LDivOut(b, q, r, LQuotDigit(r, b, 0, LimbBase - 1))
LDivStep(b, limb, up) == LDivDigit(b, up[1], LNorm(<<limb>> \o up[2]))
RECURSIVE LDivAt(_, _, _)
LDivAt(a, b, k) == IF k > Len(a) THEN <<<<>>, <<>>>>
                   ELSE LDivStep(b, a[k], LDivAt(a, b, k + 1))
LDivNorm(qr) == <<LNorm(qr[1]), qr[2]>>
LDivMod(a, b) == LDivNorm(LDivAt(a, b, 1))

\* a \div 2
LHalf(a) == LNorm([k \in 1..Len(a) |->
                    (a[k] \div 2) + (LLimb(a, k + 1) % 2) * (LimbBase \div 2)])

RECURSIVE LPow10(_)
LPow10(k) == IF k = 0 THEN <<1>> ELSE LMulSmall(LPow10(k - 1), 10)

\* ---- IEEE-754 binary64 (Python's float, numpy's float64): sign * man * 2^exp2 with
\* ---- 2^52 <= man < 2^53, or man = 0; exponent range and subnormals are not modelled
Precision == 53

FZero(neg) == [neg |-> neg, man |-> <<>>, exp2 |-> 0]

\* sign * m * 2^e for m of 53 or 54 bits, the latter a carry out of the rounding
FNormal(neg, m, e) ==
    IF LBitLen(m) > Precision THEN [neg |-> neg, man |-> LHalf(m), exp2 |-> e + 1]
    ELSE [neg |-> neg, man |-> m, exp2 |-> e]
FRoundUp(neg, m, up, e) == FNormal(neg, IF up THEN LAdd(m, <<1>>) ELSE m, e)
\* round to nearest, ties to even: m has 54 bits, the last of them the half bit;
\* sticky says that the exact value has more below it
FRound54(neg, m, sticky, e) ==
    FRoundUp(neg, LHalf(m), m[1] % 2 = 1 /\ (sticky \/ (m[1] \div 2) % 2 = 1), e + 1)
\* qr is the quotient, of 54 or 55 bits, and the remainder
FRoundQuot(neg, qr, e) ==
    IF LBitLen(qr[1]) > Precision + 1
    THEN FRound54(neg, LHalf(qr[1]), qr[2] # <<>> \/ qr[1][1] % 2 = 1, e + 1)
    ELSE FRound54(neg, qr[1], qr[2] # <<>>, e)
\* p * 2^s / q lies in [2^53, 2^55)
FRoundScaled(neg, p, q, e, s) ==
    FRoundQuot(neg, LDivMod(IF s >= 0 THEN LMul(p, LPow2(s)) ELSE p,
                            IF s >= 0 THEN q ELSE LMul(q, LPow2(-s))), e - s)
\* the binary64 nearest to sign * (p / q) * 2^e, p and q naturals, q > 0
FRoundRat(neg, p, q, e) ==
    IF p = <<>> THEN FZero(neg)
    ELSE FRoundScaled(neg, p, q, e, Precision + 1 + LBitLen(q) - LBitLen(p))

FFromInt(n) == FRoundRat(n < 0, LFromNat(IF n < 0 THEN -n ELSE n), <<1>>, 0)
FMul(x, y) == IF x.man = <<>> \/ y.man = <<>> THEN FZero(x.neg # y.neg)
              ELSE FRoundRat(x.neg # y.neg, LMul(x.man, y.man), <<1>>, x.exp2 + y.exp2)
FDiv(x, y) == IF x.man = <<>> THEN FZero(x.neg # y.neg)
              ELSE FRoundRat(x.neg # y.neg, x.man, y.man, x.exp2 - y.exp2)

\* x - y for x and y not zero, their mantissas mx and my at the same exponent e
FSubAligned(x, y, mx, my, e) ==
    FRoundRat(IF x.neg # y.neg \/ LCmp(mx, my) >= 0 THEN x.neg ELSE ~x.neg,
              IF x.neg # y.neg THEN LAdd(mx, my)
              ELSE IF LCmp(mx, my) >= 0 THEN LSub(mx, my) ELSE LSub(my, mx),
              <<1>>, e)
FSubAt(x, y, e) ==
    FSubAligned(x, y, LMul(x.man, LPow2(x.exp2 - e)), LMul(y.man, LPow2(y.exp2 - e)), e)
\* x - y
FSub(x, y) ==
    IF x.man = <<>> /\ y.man = <<>> THEN FZero(x.neg /\ ~y.neg)
    ELSE IF y.man = <<>> THEN x
    ELSE IF x.man = <<>> THEN [y EXCEPT !.neg = ~y.neg]
    ELSE IF x = y THEN FZero(FALSE)
    ELSE FSubAt(x, y, IF x.exp2 < y.exp2 THEN x.exp2 ELSE y.exp2)

\* <<floor(|x|), whether |x| has a fraction>> for |x| < 2^31
FSplitOut(qr) == <<LToNat(qr[1]), qr[2] # <<>>>>
FSplit(x) ==
    IF x.man = <<>> THEN <<0, FALSE>>
    ELSE IF x.exp2 >= 0 THEN <<LToNat(LMul(x.man, LPow2(x.exp2))), FALSE>>
    ELSE FSplitOut(LDivMod(x.man, LPow2(-x.exp2)))

\* math.ceil
FCeilOf(neg, fl) == IF neg THEN -fl[1] ELSE IF fl[2] THEN fl[1] + 1 ELSE fl[1]
FCeil(x) == FCeilOf(x.neg, FSplit(x))

\* ---- text: a str is a sequence of one-character strings
Digits == <<"0", "1", "2", "3", "4", "5", "6", "7", "8", "9">>
IsDigit(c) == \E d \in 1..10 : Digits[d] = c
DigitVal(c) == (CHOOSE d \in 1..10 : Digits[d] = c) - 1
AllDigits(s) == \A k \in 1..Len(s) : IsDigit(s[k])

\* str.split(','): the fields between the commas; the empty str has one empty field
RECURSIVE Split(_)
Split(s) ==
    IF s = <<>> THEN << <<>> >>
    ELSE LET rest == Split(Tail(s))
         IN  IF s[1] = "," THEN << <<>> >> \o rest
             ELSE << <<s[1]>> \o rest[1] >> \o Tail(rest)

RECURSIVE Join(_)
Join(fields) == IF Len(fields) = 0 THEN <<>>
                ELSE IF Len(fields) = 1 THEN fields[1]
                ELSE fields[1] \o <<",">> \o Join(Tail(fields))

HasSign(s) == s # <<>> /\ s[1] \in {"-", "+"}
Unsigned(s) == IF HasSign(s) THEN Tail(s) ELSE s
IsNeg(s) == s # <<>> /\ s[1] = "-"

\* the first place of c in s, 0 when there is none
IndexOf(s, c) == IF \E k \in 1..Len(s) : s[k] = c
                 THEN CHOOSE k \in 1..Len(s) : s[k] = c /\ \A j \in 1..(k - 1) : s[j] # c
                 ELSE 0

RECURSIVE DigitsToNat(_)
DigitsToNat(s) == IF s = <<>> THEN 0
                  ELSE DigitsToNat(SubSeq(s, 1, Len(s) - 1)) * 10 + DigitVal(s[Len(s)])

RECURSIVE DigitsToL(_)
DigitsToL(s) == IF s = <<>> THEN <<>>
                ELSE LAdd(LMulSmall(DigitsToL(SubSeq(s, 1, Len(s) - 1)), 10),
                          LFromNat(DigitVal(s[Len(s)])))

\* int(s): whether s is accepted (otherwise int raises ValueError), and its value
IsIntLit(s) == Unsigned(s) # <<>> /\ AllDigits(Unsigned(s))
PyInt(s) == IF IsNeg(s) THEN -DigitsToNat(Unsigned(s)) ELSE DigitsToNat(Unsigned(s))

\* float(s): [sign] (digits [. [digits]] | . digits) [e [sign] digits]
FloatMant(s) == LET u == Unsigned(s) e == IndexOf(u, "e")
                IN  IF e = 0 THEN u ELSE SubSeq(u, 1, e - 1)
FloatExpo(s) == LET u == Unsigned(s) e == IndexOf(u, "e")
                IN  IF e = 0 THEN <<"0">> ELSE SubSeq(u, e + 1, Len(u))
FloatIntPart(s) == LET m == FloatMant(s) d == IndexOf(m, ".")
                   IN  IF d = 0 THEN m ELSE SubSeq(m, 1, d - 1)
FloatFracPart(s) == LET m == FloatMant(s) d == IndexOf(m, ".")
                    IN  IF d = 0 THEN <<>> ELSE SubSeq(m, d + 1, Len(m))
IsFloatLit(s) ==
    /\ AllDigits(FloatIntPart(s))
    /\ AllDigits(FloatFracPart(s))
    /\ FloatIntPart(s) \o FloatFracPart(s) # <<>>
    /\ IsIntLit(FloatExpo(s))
\* the correctly rounded binary64 of the decimal literal: digits d, decimal exponent e10
PyFloatOf(neg, d, e10) ==
    FRoundRat(neg, IF e10 >= 0 THEN LMul(d, LPow10(e10)) ELSE d,
              IF e10 >= 0 THEN <<1>> ELSE LPow10(-e10), 0)
PyFloat(s) == PyFloatOf(IsNeg(s), DigitsToL(FloatIntPart(s) \o FloatFracPart(s)),
                        PyInt(FloatExpo(s)) - Len(FloatFracPart(s)))

\* '%i' % n
RECURSIVE NatToDigits(_)
NatToDigits(n) == IF n < 10 THEN <<Digits[n + 1]>>
                  ELSE NatToDigits(n \div 10) \o <<Digits[(n % 10) + 1]>>

\* ---- number formatting: '%.4e' % x and f'{x:.4e}', '%s' % x, '%i' % x
\* |x| as the fraction FNum / FDen
FNum(x) == IF x.exp2 >= 0 THEN LMul(x.man, LPow2(x.exp2)) ELSE x.man
FDen(x) == IF x.exp2 >= 0 THEN <<1>> ELSE LPow2(-x.exp2)
\* x <= y
FLeq(x, y) == x = y \/ FSub(x, y).neg \/ (x.man = <<>> /\ y.man = <<>>)
\* whether p / q >= 10^k
RatGePow10(p, q, k) == IF k >= 0 THEN LCmp(p, LMul(q, LPow10(k))) >= 0
                       ELSE LCmp(LMul(p, LPow10(-k)), q) >= 0
\* the decimal exponent of x # 0, the e with 10^e <= |x| < 10^(e + 1), for |x| >= 10^lo
RECURSIVE FExp10From(_, _)
FExp10From(x, lo) ==
    IF RatGePow10(FNum(x), FDen(x), lo + 1) THEN FExp10From(x, lo + 1) ELSE lo
FExp10(x) == FExp10From(x, -12)
\* n, the floor of a quotient, rounded to nearest, ties to even: c compares twice the
\* remainder with the divisor
RoundHalfEven(n, c) == IF c > 0 \/ (c = 0 /\ n % 2 = 1) THEN n + 1 ELSE n
RoundDiv(qr, b) == RoundHalfEven(LToNat(qr[1]), LCmp(LMulSmall(qr[2], 2), b))
RoundRat(a, b) == RoundDiv(LDivMod(a, b), b)
\* |x| / 10^(e - k + 1) rounded to an integer: k significant digits of x, k <= 9
FSigAt(x, k, e) ==
    IF e - k + 1 >= 0 THEN RoundRat(FNum(x), LMul(FDen(x), LPow10(e - k + 1)))
    ELSE RoundRat(LMul(FNum(x), LPow10(k - 1 - e)), FDen(x))
\* <<the k digits as a natural, the decimal exponent of the first digit>>
FSigOf(n, k, e) == IF n = 10 ^ k THEN <<10 ^ (k - 1), e + 1>> ELSE <<n, e>>
FSig(x, k) == IF x.man = <<>> THEN <<0, 0>>
              ELSE FSigOf(FSigAt(x, k, FExp10(x)), k, FExp10(x))
\* n as w decimal digits
RECURSIVE ZeroPad(_, _)
ZeroPad(n, w) == IF w = 0 THEN <<>> ELSE ZeroPad(n \div 10, w - 1) \o <<Digits[(n % 10) + 1]>>
\* w zeros
Zeros(w) == [j \in 1..w |-> "0"]
\* '%.<k-1>e' % x for the digits and exponent sig of x
FmtEOf(neg, sig, k) ==
    (IF neg THEN <<"-">> ELSE <<>>) \o ZeroPad(sig[1] \div 10 ^ (k - 1), 1) \o <<".">>
        \o ZeroPad(sig[1] % 10 ^ (k - 1), k - 1)
        \o <<"e", IF sig[2] < 0 THEN "-" ELSE "+">>
        \o ZeroPad(IF sig[2] < 0 THEN -sig[2] ELSE sig[2], 2)
FmtE(x, k) == FmtEOf(x.neg, FSig(x, k), k)
\* repr(x): the fewest digits that read back as x, written without an exponent
\* (10^-4 <= |x| < 10^16)
RECURSIVE ReprLen(_, _)
ReprLen(x, k) ==
    IF k >= 9 \/ PyFloatOf(x.neg, LFromNat(FSig(x, k)[1]), FSig(x, k)[2] - k + 1) = x
    THEN k ELSE ReprLen(x, k + 1)
ReprOf(neg, sig, k) ==
    (IF neg THEN <<"-">> ELSE <<>>)
        \o (IF sig[2] >= k - 1 THEN ZeroPad(sig[1], k) \o Zeros(sig[2] - k + 1) \o <<".", "0">>
            ELSE IF sig[2] >= 0
                 THEN ZeroPad(sig[1] \div 10 ^ (k - 1 - sig[2]), sig[2] + 1) \o <<".">>
                          \o ZeroPad(sig[1] % 10 ^ (k - 1 - sig[2]), k - 1 - sig[2])
                 ELSE <<"0", ".">> \o Zeros(-sig[2] - 1) \o ZeroPad(sig[1], k))
FRepr(x) == IF x.man = <<>> THEN ReprOf(x.neg, <<0, 0>>, 1)
            ELSE ReprOf(x.neg, FSig(x, ReprLen(x, 1)), ReprLen(x, 1))
\* int(x) for |x| < 2^31: towards zero
FTrunc(x) == IF x.neg THEN -FSplit(x)[1] ELSE FSplit(x)[1]
\* '%i' % n
IntText(n) == IF n < 0 THEN <<"-">> \o NatToDigits(-n) ELSE NatToDigits(n)
\* ''.join(chars)
RECURSIVE Text(_)
Text(chars) == IF chars = <<>> THEN "" ELSE chars[1] \o Text(Tail(chars))

\* ---- byte buffers (bytes, numpy uint8 arrays): run-length coded, a sequence of runs
\* ---- [b |-> value 0..255, n |-> count >= 1], neighbouring runs of different values
RECURSIVE BufLen(_)
BufLen(buf) == IF buf = <<>> THEN 0 ELSE buf[1].n + BufLen(Tail(buf))

\* buf ++ other
BufCat2(buf, other) ==
    IF buf = <<>> THEN other
    ELSE IF other = <<>> THEN buf
    ELSE IF buf[Len(buf)].b = other[1].b
    THEN SubSeq(buf, 1, Len(buf) - 1)
         \o <<[b |-> other[1].b, n |-> buf[Len(buf)].n + other[1].n]>> \o Tail(other)
    ELSE buf \o other

\* buf[k:] for k >= 0
RECURSIVE BufDrop(_, _)
BufDrop(buf, k) ==
    IF buf = <<>> \/ k <= 0 THEN buf
    ELSE IF buf[1].n <= k THEN BufDrop(Tail(buf), k - buf[1].n)
    ELSE <<[b |-> buf[1].b, n |-> buf[1].n - k]>> \o Tail(buf)

\* buf[:k] for k >= 0
RECURSIVE BufTake(_, _)
BufTake(buf, k) ==
    IF buf = <<>> \/ k <= 0 THEN <<>>
    ELSE IF buf[1].n <= k THEN <<buf[1]>> \o BufTake(Tail(buf), k - buf[1].n)
    ELSE <<[b |-> buf[1].b, n |-> k]>>

\* buf[p] for 0 <= p < len(buf)
RECURSIVE BufAt(_, _)
BufAt(buf, p) == IF p < buf[1].n THEN buf[1].b ELSE BufAt(Tail(buf), p - buf[1].n)

RECURSIVE BufOfBytes(_)
BufOfBytes(s) == IF s = <<>> THEN <<>>
                 ELSE BufCat2(<<[b |-> s[1], n |-> 1]>>, BufOfBytes(Tail(s)))

\* numpy.frombuffer(data, 'B'): each byte is one unsigned 8-bit sample
frombuffer_B(data) == [k \in 1..Len(data) |-> [b |-> data[k].b % 256, n |-> data[k].n]]

\* numpy.concatenate of a non-empty list of arrays
RECURSIVE concatenate(_)
concatenate(arrays) == IF Len(arrays) = 1 THEN arrays[1]
                       ELSE BufCat2(arrays[1], concatenate(Tail(arrays)))

\* ---- the instrument behind the transport (the stub)
max_num_pts == 250000
block_pts == 250000
HeaderLen == 11
Terminator == 10
TruncLen == 5
SegLen == 100000
Codes == <<127, 137, 117>>

\* bounds of the inputs
MaxFullBlocks == 2

Remainders == {0, 3, SegLen}
PointChoices == {b * max_num_pts + r : b \in 0..MaxFullBlocks, r \in Remainders}
XincTokens == { <<"0", ".", "1">>, <<"0", ".", "5">> }

\* the sample the instrument holds for point p (1-based): 127, 137, 117 at the first
\* three points, then segments of SegLen equal samples
DevSample(p) == IF p <= 3 THEN Codes[p] ELSE Codes[(((p - 1) \div SegLen) % 3) + 1]
DevRunEnd(p) == IF p <= 3 THEN p ELSE ((p - 1) \div SegLen + 1) * SegLen
RECURSIVE DevPayload(_, _)
DevPayload(s, e) ==
    IF s < 1 \/ s > e THEN <<>>
    ELSE LET stop == IF DevRunEnd(s) < e THEN DevRunEnd(s) ELSE e
         IN  BufCat2(<<[b |-> DevSample(s), n |-> stop - s + 1]>>, DevPayload(stop + 1, e))

\* the block header '#9' and the byte count in nine digits
RECURSIVE PadDigits(_, _)
PadDigits(n, w) == IF w = 0 THEN <<>> ELSE PadDigits(n \div 10, w - 1) \o <<48 + (n % 10)>>
TmcHeader(n) == BufOfBytes(<<35, 57>> \o PadDigits(n, 9))

\* [header][payload of the window][terminator]
FramedReply(s, e) ==
    LET payload == DevPayload(s, e)
    IN  BufCat2(BufCat2(TmcHeader(BufLen(payload)), payload), <<[b |-> Terminator, n |-> 1]>>)

DevKinds == {"trunc", "short", "long", "noterm"}
\* what read_raw returns for the window s..e
DevReply(stub, s, e) ==
    LET full == FramedReply(s, e)
    IN  IF stub.at # s THEN full
        ELSE IF stub.kind = "trunc" THEN BufTake(full, TruncLen)
        ELSE IF stub.kind = "short" THEN BufTake(full, HeaderLen + (e - s + 1) \div 2)
        ELSE IF stub.kind = "noterm" THEN BufTake(full, BufLen(full) - 1)
        ELSE IF stub.kind = "long" THEN FramedReply(s, e + 1)
        ELSE full

\* the preamble replies of the stub
Tok(n) == IF n < 0 THEN <<"-">> \o NatToDigits(-n) ELSE NatToDigits(n)
PreFields(points, xinc) ==
    << <<"0">>, <<"2">>, Tok(points), <<"1">>, xinc, <<"-", "1", ".", "5">>, <<"0">>,
       <<"0", ".", "1">>, <<"0">>, <<"1", "2", "7">> >>
GoodPreambles == {Join(PreFields(p, x)) : p \in PointChoices, x \in XincTokens}
BaseFields == PreFields(3, <<"0", ".", "1">>)
BadPreambles ==
    { <<>>,
      Join(SubSeq(BaseFields, 1, 9)),
      Join(BaseFields \o << <<"0">> >>),
      Join(BaseFields \o << <<"x">> >>),
      Join([BaseFields EXCEPT ![3] = <<"1", ".", "5">>]),
      Join([BaseFields EXCEPT ![1] = <<"x">>]),
      Join([BaseFields EXCEPT ![8] = <<"x">>]),
      Join([BaseFields EXCEPT ![10] = <<>>]),
      Join(PreFields(-5, <<"0", ".", "1">>)) }
PreambleReplies == GoodPreambles \cup BadPreambles

NumWindows(points) == (points + block_pts - 1) \div block_pts
DevStubs ==
    {[pre |-> r, at |-> 0, kind |-> "none"] : r \in PreambleReplies}
    \cup UNION {{[pre |-> Join(PreFields(p, <<"0", ".", "5">>)),
                    at |-> 1 + k * block_pts, kind |-> kd] :
                   k \in 0..(NumWindows(p) - 1), kd \in DevKinds} :
                 p \in PointChoices}

\* the window the instrument holds: the numbers of the last ':wav:star' and ':wav:stop'
\* it was sent (1 and 0, an empty window, before any)
WindowNumbers == UNION {{k * block_pts + d : d \in 0..3} : k \in 0..(MaxFullBlocks + 2)}
                 \cup {p + d : p \in PointChoices, d \in 0..1}
WindowHeads == {":wav:star ", ":wav:stop "}
NumberOfCmd ==
    [head \in WindowHeads |->
        [c \in {head \o ToString(n) : n \in WindowNumbers} |->
            CHOOSE n \in WindowNumbers : c = head \o ToString(n)]]
DevNumber(cmd, head) ==
    IF cmd \in DOMAIN NumberOfCmd[head] THEN NumberOfCmd[head][cmd] ELSE -1
RECURSIVE DevRegister(_, _, _)
DevRegister(log, head, default) ==
    IF log = <<>> THEN default
    ELSE LET last == log[Len(log)]
         IN  IF last.op = "write" /\ last.ok /\ DevNumber(last.cmd, head) # -1
             THEN DevNumber(last.cmd, head)
             ELSE DevRegister(SubSeq(log, 1, Len(log) - 1), head, default)

\* ---- get_data_premable
\* str.split(',') of the reply
SplitTable == [r \in PreambleReplies |-> Split(r)]
split_(r) == IF r \in PreambleReplies THEN SplitTable[r] ELSE Split(r)
PreambleKeys == <<"format", "type", "points", "count", "xincrement", "xorigin",
                  "xreference", "yincrement", "yorigin", "yreference">>
FloatTokens == UNION {{PreFields(p, x)[k] : k \in 5..10} : p \in {3}, x \in XincTokens}
FloatTable == [s \in FloatTokens |-> PyFloat(s)]
float_(s) == IF s \in FloatTokens THEN FloatTable[s] ELSE PyFloat(s)

\* the first of the ten conversions that raises, 0 when none does: pre[k - 1] raises
\* IndexError past the end of the list, int and float raise ValueError
RECURSIVE PreambleFails(_, _)
PreambleFails(pre, k) ==
    IF k > 10 THEN 0
    ELSE IF k > Len(pre) THEN k
    ELSE IF k <= 4 /\ ~IsIntLit(pre[k]) THEN k
    ELSE IF k > 4 /\ ~IsFloatLit(pre[k]) THEN k
    ELSE PreambleFails(pre, k + 1)
PreambleError(pre) ==
    LET k == PreambleFails(pre, 1)
    IN  IF k = 0 THEN "" ELSE IF k > Len(pre) THEN "IndexError" ELSE "ValueError"
\* the dictionary with the y-origin and the y-reference taken from each other's field
pre_dict_swapped(pre) ==
    [format     |-> PyInt(pre[1]),
     type       |-> PyInt(pre[2]),
     points     |-> PyInt(pre[3]),
     count      |-> PyInt(pre[4]),
     xincrement |-> float_(pre[5]),
     xorigin    |-> float_(pre[6]),
     xreference |-> float_(pre[7]),
     yincrement |-> float_(pre[8]),
     yorigin    |-> float_(pre[10]),
     yreference |-> float_(pre[9])]
pre_dict(pre) ==
    [format     |-> PyInt(pre[1]),
     type       |-> PyInt(pre[2]),
     points     |-> PyInt(pre[3]),
     count      |-> PyInt(pre[4]),
     xincrement |-> float_(pre[5]),
     xorigin    |-> float_(pre[6]),
     xreference |-> float_(pre[7]),
     yincrement |-> float_(pre[8]),
     yorigin    |-> float_(pre[9]),
     yreference |-> float_(pre[10])]
NoInfo == [format |-> 0, type |-> 0, points |-> 0, count |-> 0,
           xincrement |-> FZero(FALSE), xorigin |-> FZero(FALSE),
           xreference |-> FZero(FALSE), yincrement |-> FZero(FALSE),
           yorigin |-> FZero(FALSE), yreference |-> FZero(FALSE)]

\* ---- the arithmetic of get_data
num_blocks_of(inf) == inf.points \div max_num_pts
last_block_pts_of(inf) == inf.points % max_num_pts
\* a start address counted from 0, as the sample index is
star_zero_based(k) == k * block_pts
star_full(k) == 1 + k * block_pts
stop_full(k) == block_pts * (k + 1)
star_last(inf) == 1 + num_blocks_of(inf) * block_pts
stop_last(inf) == num_blocks_of(inf) * block_pts + last_block_pts_of(inf)

\* a conversion that scales before the reference is taken off
VoltScaledEarly(c, inf) ==
    FSub(FMul(FSub(FFromInt(c), inf.yorigin), inf.yincrement), inf.yreference)
\* (c - yorigin - yreference) * yincrement for one sample c
Volt(c, inf) == FMul(FSub(FSub(FFromInt(c), inf.yorigin), inf.yreference), inf.yincrement)
YArgs == {<<c, FloatTable[PreFields(3, x)[9]], FloatTable[PreFields(3, x)[10]],
            FloatTable[PreFields(3, x)[8]]>> :
            c \in {Codes[k] : k \in 1..Len(Codes)} \cup {Terminator}, x \in XincTokens}
VoltTable == [a \in YArgs |->
                Volt(a[1], [NoInfo EXCEPT !.yorigin = a[2], !.yreference = a[3],
                                          !.yincrement = a[4]])]
volt_(c, inf) ==
    IF <<c, inf.yorigin, inf.yreference, inf.yincrement>> \in YArgs
    THEN VoltTable[<<c, inf.yorigin, inf.yreference, inf.yincrement>>]
    ELSE Volt(c, inf)
\* the voltages, run by run: [x |-> binary64, n |-> count]
Volts(samples, inf) ==
    [k \in 1..Len(samples) |-> [x |-> volt_(samples[k].b, inf), n |-> samples[k].n]]
RECURSIVE SeriesLen(_)
SeriesLen(v) == IF v = <<>> THEN 0 ELSE v[1].n + SeriesLen(Tail(v))

\* numpy.arange(0, stop, step): ceil((stop - 0) / step) entries, entry k is 0 + k * step
ArangeLen(points, xinc) ==
    LET n == FCeil(FDiv(FMul(FFromInt(points), xinc), xinc)) IN IF n < 0 THEN 0 ELSE n
ArangeArgs == {<<p, FloatTable[x]>> : p \in PointChoices, x \in XincTokens}
ArangeTable == [a \in ArangeArgs |-> ArangeLen(a[1], a[2])]
arange_len(points, xinc) ==
    IF <<points, xinc>> \in ArangeArgs THEN ArangeTable[<<points, xinc>>]
    ELSE ArangeLen(points, xinc)
arange(inf) == [n |-> arange_len(inf.points, inf.xincrement), delta |-> inf.xincrement]

\* the progress bar tqdm(range(num_blocks + 1)): its total, and the iterations it has
\* counted as completed after k blocks were transferred (a break is not counted)
tqdm_total(inf) == num_blocks_of(inf) + 1
tqdm_n(k) == k

\* the setup writes and the preamble query that come before the block loop
SetupLen == 5

\* ---- the state
VARIABLES
    pc,             \* the statement to run next: "idle", "gd_*", "ss_*"
    channel,        \* self._channel of the channel get_data runs on
    mode,           \* get_data's mode argument
    format,         \* get_screenshot's format argument
    filename,       \* the filename argument, "" for None
    info,           \* the preamble dictionary
    hasInfo,        \* whether get_data_premable has returned
    i,              \* the loop variable of the block loop
    datas,          \* the list of sample arrays
    sent,           \* the transport calls of the current operation, in order
    replies,        \* the raw replies read_raw returned in the current operation
    result,         \* <<>> , or <<<<t, v>>>> once get_data has returned
    err,            \* "" , or the exception the operation ended with
    timeout,        \* visa_resource.timeout: <<>> for None, <<ms>>
    timeoutAtCall,  \* visa_resource.timeout when the current operation was called
    oldTimeout,     \* get_screenshot's oldTimeout
    file,           \* the file at the path get_data is given: <<>> absent, <<content>>
    fileAtCall,     \* the file when the current operation was called
    shot,           \* the file at the path get_screenshot is given: <<>> , <<raw_img>>
    dev,            \* the stub behind the transport
    cancel,         \* the blocks completed when the user asked to cancel, or NotCancelled
    prev,           \* <<>> , or the get_data call that ended just before this one
    call,           \* the frame of the command-layer call in progress, or NoCall
    osc             \* the settings the instrument answers the command layer's queries from

vars == <<pc, channel, mode, format, filename, info, hasInfo, i, datas, sent, replies,
          result, err, timeout, timeoutAtCall, oldTimeout, file, fileAtCall, shot, dev,
          cancel, prev, call, osc>>

NotCancelled == -1
\* the calls of get_data: channel, mode, filename
Channels == 1..4
GdArgs == { <<1, "norm", "">>, <<2, "raw", "wave.csv">>, <<4, "norm", "wave.csv">>,
            <<3, "RAW", "">> }
TimeoutChoices == { <<>>, <<2000>> }
ImageFormats == {"png", "gif"}
\* a file another program left at the path: one row
OldContent == [t |-> [n |-> 1, delta |-> FZero(FALSE)],
               v |-> <<[x |-> FFromInt(9), n |-> 1]>>]
ImageBytes == BufOfBytes(<<137, 80, 78, 71, 1, 2, 3, 4, 5, 6>>)

\* ---- the command layer: the setters of rigol1000z.py, CommandMenu and commands.py
\* a Python value: a str (its characters c), an int n or a float f
VStr(c) == [t |-> "str", c |-> c, f |-> FZero(FALSE), n |-> 0]
VInt(n) == [t |-> "int", c |-> <<>>, f |-> FFromInt(n), n |-> n]
VFloat(lit) == [t |-> "float", c |-> <<>>, f |-> PyFloat(lit), n |-> 0]
\* str.upper, str.lower
LowerCase == <<"a", "b", "c", "d", "e", "f", "g", "h", "i", "j", "k", "l", "m",
               "n", "o", "p", "q", "r", "s", "t", "u", "v", "w", "x", "y", "z">>
UpperCase == <<"A", "B", "C", "D", "E", "F", "G", "H", "I", "J", "K", "L", "M",
               "N", "O", "P", "Q", "R", "S", "T", "U", "V", "W", "X", "Y", "Z">>
upper(c) == [k \in 1..Len(c) |-> IF IndexOf(LowerCase, c[k]) = 0 THEN c[k]
                                 ELSE UpperCase[IndexOf(LowerCase, c[k])]]
lower(c) == [k \in 1..Len(c) |-> IF IndexOf(UpperCase, c[k]) = 0 THEN c[k]
                                 ELSE LowerCase[IndexOf(UpperCase, c[k])]]
\* (0.01, 0.02, 0.05, 0.1, 0.2, 0.5, 1, 2, 5, 10, 20, 50, 100, 200, 500, 1000)
ProbeRatios == {PyFloatOf(FALSE, LFromNat(d), e) : d \in {1, 2, 5}, e \in -2..2}
                   \cup {FFromInt(1000)}
\* [2**n for n in range(1, 11)]
AverageCounts == {FFromInt(2 ^ n) : n \in 1..10}
\* a setter: the menu it writes through ("chan" for ':chan<n>'), the head of its set
\* command, its check with the bounds or the members, the format of the value, and the
\* query its getter sends after the write ("" when the setter does not read back)
Setter(menu, head, check, lo, hi, among, fmt, echo) ==
    [menu |-> menu, head |-> head, check |-> check, lo |-> PyFloat(lo), hi |-> PyFloat(hi),
     among |-> among, fmt |-> fmt, echo |-> echo]
NoLit == <<"0">>
Setters ==
    \* _Rigol1000zChannel, _Rigol1000zTimebase and Rigol1000z of rigol1000z.py
       "set_coupling" :> Setter("chan", ":coup ", "upper", NoLit, NoLit,
                                {"AC", "DC", "GND"}, "s", ":coup?")
    @@ "set_offset_V" :> Setter("chan", ":off ", "range", <<"-", "1", "0", "0", "0">>,
                                <<"1", "0", "0", "0", ".">>, {}, "e", ":off?")
    @@ "set_range_V" :> Setter("chan", ":rang ", "range", <<"8", "e", "-", "3">>,
                               <<"8", "0", "0", ".">>, {}, "e", ":rang?")
    @@ "set_vertical_scale_V" :> Setter("chan", ":scal ", "range", <<"1", "e", "-", "3">>,
                                        <<"1", "0", "0">>, {}, "e", "")
    @@ "set_probe_ratio" :> Setter("chan", ":prob ", "in", NoLit, NoLit, ProbeRatios,
                                   "s", ":prob?")
    @@ "set_units" :> Setter("chan", ":unit ", "lower", NoLit, NoLit,
                             {"volt", "watt", "amp", "unkn"}, "s", "")
    @@ "set_timebase_scale_s_div" :> Setter(":tim", ":scal ", "range",
                                            <<"5", "0", "e", "-", "9">>, <<"5", "0">>, {},
                                            "e", ":scal?")
    @@ "set_timebase_mode" :> Setter(":tim", ":mode ", "lower", NoLit, NoLit,
                                     {"main", "xy", "roll"}, "s", ":mode?")
    @@ "set_averaging" :> Setter("", ":acq:aver ", "in", NoLit, NoLit, AverageCounts,
                                 "i", ":acq:aver?")
    \* Channel and Acquire of commands.py
    @@ "coupling" :> Setter("chan", ":coup ", "upper", NoLit, NoLit, {"AC", "DC", "GND"},
                            "s", "")
    @@ "offset_v" :> Setter("chan", ":off ", "range", <<"-", "1", "0", "0", "0", ".">>,
                            <<"1", "0", "0", "0", ".">>, {}, "e", "")
    @@ "range_v" :> Setter("chan", ":rang ", "range", <<"8", "e", "-", "3">>,
                           <<"8", "0", "0", ".">>, {}, "e", "")
    @@ "scale_v" :> Setter("chan", ":scal ", "probe_range", <<"1", "e", "-", "3">>,
                           <<"1", "0", ".">>, {}, "e", "")
    @@ "probe_ratio" :> Setter("chan", ":prob ", "in", NoLit, NoLit, ProbeRatios, "e", "")
    @@ "units" :> Setter("chan", ":unit ", "lower", NoLit, NoLit,
                         {"volt", "watt", "amp", "unkn"}, "s", "")
    @@ "averages" :> Setter(":acq", ":aver ", "in", NoLit, NoLit, AverageCounts, "i", "")
\* the hierarchy prefix of the menu for the channel object of channel ch
PrefixOf(menu, ch) == IF menu = "chan" THEN ":chan" \o ToString(ch) ELSE menu
\* the value after the setter's normalisation (val.upper(), val.lower())
Normal(st, v) ==
    IF st.check = "upper" THEN VStr(upper(v.c))
    ELSE IF st.check = "lower" THEN VStr(lower(v.c))
    ELSE v
\* the exception the setter's normalisation and assert end with for the argument v, ""
\* when they pass; pr is the probe ratio scale_v has read
SetError(st, v, pr) ==
    IF st.check \in {"upper", "lower"}
    THEN IF v.t # "str" THEN "AttributeError"
         ELSE IF Text(Normal(st, v).c) \in st.among THEN "" ELSE "AssertionError"
    ELSE IF st.check = "in"
    THEN IF v.t # "str" /\ v.f \in st.among THEN "" ELSE "AssertionError"
    ELSE IF v.t = "str" THEN "TypeError"
    ELSE IF st.check = "range"
    THEN IF FLeq(st.lo, v.f) /\ FLeq(v.f, st.hi) THEN "" ELSE "AssertionError"
    ELSE IF FLeq(FMul(st.lo, pr), v.f) /\ FLeq(v.f, FMul(st.hi, pr)) THEN ""
         ELSE "AssertionError"
\* the value as the set command spells it: '%s', '%.4e' (f'{val:.4e}'), '%i' (int(val))
Spelled(fmt, v) ==
    IF v.t = "str" THEN v.c
    ELSE IF fmt = "e" THEN FmtE(v.f, 5)
    ELSE IF fmt = "i" THEN IntText(IF v.t = "int" THEN v.n ELSE FTrunc(v.f))
    ELSE IF v.t = "int" THEN IntText(v.n) ELSE FRepr(v.f)
\* the arguments the setters are called with
TextInputs == {VStr(c) : c \in {<<"a", "c">>, <<"D", "C">>, <<"G", "n", "d">>, <<"x">>,
                                <<"V", "O", "L", "T">>, <<"a", "m", "p">>,
                                <<"M", "a", "i", "n">>, <<"x", "y">>}}
NumberInputs ==
    {VFloat(lit) : lit \in {<<"0", ".", "1", "2", "3", "4", "5", "6">>,
                            <<"0", ".", "0", "0", "7", "9", "9", "9", "9", "6">>,
                            <<"8", "e", "-", "3">>, <<"1", "e", "-", "3">>,
                            <<"5", "0", "e", "-", "9">>, <<"4", "9", "e", "-", "9">>,
                            <<"9", "9", "9", ".", "9", "9", "6">>,
                            <<"1", "0", "0", "0", ".", "5">>, <<"0", ".", "0", "1">>,
                            <<"0", ".", "0", "3">>, <<"4", ".", "0">>,
                            <<"-", "2", "5", ".", "5">>}}
        \cup {VInt(n) : n \in {-2000, 0, 3, 10, 50, 100, 800, 1024, 2048}}
SetterInputs(st) == IF st.check \in {"upper", "lower"} THEN TextInputs ELSE NumberInputs
\* '%.4e' of the numbers the setters are called with, computed once
E4Table == [x \in {v.f : v \in NumberInputs} |-> FmtE(x, 5)]
spelled_(fmt, v) ==
    IF v.t # "str" /\ fmt = "e" /\ v.f \in DOMAIN E4Table THEN E4Table[v.f]
    ELSE Spelled(fmt, v)
\* the set command of the setter for the argument v on channel ch
SetCommand(st, ch, v) == PrefixOf(st.menu, ch) \o st.head \o Text(spelled_(st.fmt, Normal(st, v)))

\* the memory depths allowed with 1, 2, and 3 or 4 channels enabled
DepthsFor(num_enabled_chans) ==
    IF num_enabled_chans = 1 THEN {12000, 120000, 1200000, 12000000, 24000000}
    ELSE IF num_enabled_chans = 2 THEN {6000, 60000, 600000, 6000000, 12000000}
    ELSE {3000, 30000, 300000, 3000000, 6000000}
Auto == VStr(<<"A", "U", "T", "O">>)
\* pts = int(pts) if pts != 'AUTO' else pts  (set_memory_depth);
\* val = int(val) if val != -1 else 'AUTO'   (Acquire.memory_depth):
\* <<the converted depth>>, or <<>> when int raises ValueError
DepthOf(who, v) ==
    IF who = "set_memory_depth" /\ v = Auto THEN <<Auto>>
    ELSE IF who = "memory_depth" /\ v.t # "str" /\ v.f = FFromInt(-1) THEN <<Auto>>
    ELSE IF v.t = "str" THEN (IF IsIntLit(v.c) THEN <<VInt(PyInt(v.c))>> ELSE <<>>)
    ELSE IF v.t = "int" THEN <<v>>
    ELSE <<VInt(FTrunc(v.f))>>
\* whether the asserts on the depth pass (there is none for 0 enabled channels)
DepthPasses(num_enabled_chans, pts) ==
    num_enabled_chans \in 1..4 => (pts = Auto \/ (pts.t = "int" /\ pts.n \in DepthsFor(num_enabled_chans)))
DepthInputs ==
    {Auto, VStr(<<"1", "2", "0", "0", "0">>), VStr(<<"d", "e", "e", "p">>),
     VFloat(<<"6", "0", "0", "0", ".", "7">>)}
        \cup {VInt(n) : n \in {-1, 7, 3000, 6000, 12000, 24000000}}
\* the instrument: the channels it shows, the probe ratio of each channel
NoChannels == {}
EnabledChoices == {NoChannels, {2}, {1, 3}, {1, 2, 4}, {1, 2, 3, 4}}
ProbeChoices == {FFromInt(1), FFromInt(10)}
OscChoices == {[enabled |-> e, probe |-> [c \in 1..4 |-> p]] :
                  e \in EnabledChoices, p \in ProbeChoices}
\* the calls of CommandMenu.visa_write, visa_ask and visa_ask_raw: prefix and command
MenuPrefixes == {"", ":acq", ":wav", ":chan2"}
MenuLeaves == {<<":", "m", "d", "e", "p", "?">>, <<":", "d", "a", "t", "a", "?">>}
\* the frame of a call: the method, the prefix of the menu it is called on, the
\* argument, the probe ratio read, the channels asked and those found enabled
Frame(op, who, menu, a) ==
    [op |-> op, who |-> who, menu |-> menu, a |-> a, pr |-> FFromInt(1), n |-> 0, en |-> 0]
NoCall == Frame("", "", "", VInt(0))


Init ==
    /\ pc = "idle"
    /\ channel = 1
    /\ mode = "norm"
    /\ format = "png"
    /\ filename = ""
    /\ info = NoInfo
    /\ hasInfo = FALSE
    /\ i = 0
    /\ datas = <<>>
    /\ sent = <<>>
    /\ replies = <<>>
    /\ result = <<>>
    /\ err = ""
    /\ timeout \in TimeoutChoices
    /\ timeoutAtCall = timeout
    /\ oldTimeout = <<>>
    /\ file \in { <<>>, <<OldContent>> }
    /\ fileAtCall = file
    /\ shot = <<>>
    /\ dev \in DevStubs
    /\ cancel = NotCancelled
    /\ prev = <<>>
    /\ call = NoCall
    /\ osc = [enabled |-> {1}, probe |-> [c \in 1..4 |-> FFromInt(1)]]

\* ---- the transport: Rigol1000z.visa_write, visa_ask, visa_read_raw
Sent(op, cmd, ok) == [op |-> op, cmd |-> cmd, ok |-> ok]
\* a transport call that raises and is tried again
RaisesRetried(op, cmd, failed) ==
    /\ sent' = Append(sent, Sent(op, cmd, FALSE))
    /\ pc' = pc
    /\ err' = err
\* a transport call that raises ends the operation
Raises(op, cmd, failed) ==
    /\ sent' = Append(sent, Sent(op, cmd, FALSE))
    /\ pc' = failed
    /\ err' = "VisaIOError"
\* visa_write(cmd) at statement `from`, going on to statement `to`
visa_write(from, cmd, to, failed) ==
    /\ pc = from
    /\ \/ /\ sent' = Append(sent, Sent("write", cmd, TRUE))
          /\ pc' = to
          /\ err' = err
       \/ Raises("write", cmd, failed)

\* ---- get_data
GdCall(ch, m, fn) ==
    /\ pc = "idle"
    /\ ch \in Channels
    /\ channel' = ch
    /\ mode' = m
    /\ filename' = fn
    /\ timeoutAtCall' = timeout
    /\ fileAtCall' = file
    /\ IF m \in {"norm", "raw"}
       THEN pc' = "gd_stop" /\ err' = ""
       ELSE pc' = "gd_failed" /\ err' = "AssertionError"
    /\ prev' = IF prev # <<>> /\ prev[1].args = <<ch, m, fn>> THEN prev ELSE <<>>
    /\ UNCHANGED <<format, info, hasInfo, i, datas, sent, replies, result, timeout,
                   oldTimeout, file, shot, dev, call, osc, cancel>>

GdFrame == UNCHANGED <<channel, mode, format, filename, info, hasInfo, i, datas, replies,
                       result, timeout, timeoutAtCall, oldTimeout, file, fileAtCall, shot,
                       dev, call, osc, cancel,
                   prev>>
\* a setup that starts the acquisition instead of stopping it
GdStopAsRun == visa_write("gd_stop", ":run", "gd_sour", "gd_failed") /\ GdFrame
GdStop == visa_write("gd_stop", ":stop", "gd_sour", "gd_failed") /\ GdFrame
\* the setup without the source selection
GdSourSkipped == visa_write("gd_sour", ":wav:mode " \o mode, "gd_mode", "gd_failed") /\ GdFrame
GdSour == visa_write("gd_sour", ":wav:sour chan" \o ToString(channel), "gd_mode", "gd_failed") /\ GdFrame
GdMode == visa_write("gd_mode", ":wav:mode " \o mode, "gd_form", "gd_failed") /\ GdFrame
GdForm == visa_write("gd_form", ":wav:form byte", "gd_pre", "gd_failed") /\ GdFrame

\* info = self.get_data_premable()
GdPreamble ==
    /\ pc = "gd_pre"
    /\ \/ LET pre == split_(dev.pre)
          IN  /\ sent' = Append(sent, Sent("query", ":wav:pre?", TRUE))
              /\ IF PreambleError(pre) = ""
                 THEN /\ info' = pre_dict(pre)
                      /\ hasInfo' = TRUE
                      /\ pc' = "gd_loop"
                      /\ err' = err
                 ELSE /\ pc' = "gd_failed"
                      /\ err' = PreambleError(pre)
                      /\ UNCHANGED <<info, hasInfo>>
       \/ Raises("query", ":wav:pre?", "gd_failed") /\ UNCHANGED <<info, hasInfo>>
    /\ UNCHANGED <<channel, mode, format, filename, i, datas, replies, result, timeout,
                   timeoutAtCall, oldTimeout, file, fileAtCall, shot, dev, call, osc, cancel,
                   prev>>

\* the loop head and the ':wav:star' of the iteration
GdStar ==
    /\ \/ i < num_blocks_of(info)
          /\ visa_write("gd_loop", ":wav:star " \o ToString(star_full(i)), "gd_stopw", "gd_failed")
       \/ i = num_blocks_of(info) /\ last_block_pts_of(info) # 0
          /\ visa_write("gd_loop", ":wav:star " \o ToString(star_last(info)), "gd_stopw", "gd_failed")
    /\ GdFrame
GdStopW ==
    /\ \/ i < num_blocks_of(info)
          /\ visa_write("gd_stopw", ":wav:stop " \o ToString(stop_full(i)), "gd_data", "gd_failed")
       \/ i >= num_blocks_of(info)
          /\ visa_write("gd_stopw", ":wav:stop " \o ToString(stop_last(info)), "gd_data", "gd_failed")
    /\ GdFrame
\* a data request whose reply is left unread before the next window is written
GdDataUnread == visa_write("gd_data", ":wav:data?", "gd_loop", "gd_failed") /\ GdFrame
\* visa_ask_raw(':wav:data?'): the write
GdData == visa_write("gd_data", ":wav:data?", "gd_raw", "gd_failed") /\ GdFrame
\* visa_ask_raw(':wav:data?'): the raw read; [11:], frombuffer, append
GdRawBody ==
    /\ pc = "gd_raw"
    /\ \/ LET raw == DevReply(dev, DevRegister(sent, ":wav:star ", 1),
                              DevRegister(sent, ":wav:stop ", 0))
          IN  /\ sent' = Append(sent, Sent("read_raw", "", TRUE))
              /\ replies' = Append(replies, raw)
              /\ datas' = Append(datas, frombuffer_B(BufDrop(raw, HeaderLen)))
              /\ i' = i + 1
              /\ pc' = "gd_loop"
              /\ err' = err
       \/ Raises("read_raw", "", "gd_failed") /\ UNCHANGED <<replies, datas, i>>
    /\ UNCHANGED <<channel, mode, format, filename, info, hasInfo, result, timeoutAtCall,
                   oldTimeout, file, fileAtCall, shot, dev, call, osc, cancel,
                   prev>>
\* a raw read that lifts the timeout and leaves it lifted
GdRawUnbounded == GdRawBody /\ timeout' = <<>>
\* a raw read that lifts the timeout only when it fails
GdRawLifted == GdRawBody /\ timeout' = IF pc' = "gd_failed" THEN <<>> ELSE timeout
GdRaw == GdRawBody /\ UNCHANGED timeout

\* the loop ends: break at the empty last block, or range(num_blocks + 1) exhausted
GdLoopExit ==
    /\ pc = "gd_loop"
    /\ \/ i > num_blocks_of(info)
       \/ i = num_blocks_of(info) /\ last_block_pts_of(info) = 0
    /\ pc' = "gd_asm"
    /\ UNCHANGED <<channel, mode, format, filename, info, hasInfo, i, datas, sent, replies, result,
                   err, timeout, timeoutAtCall, oldTimeout, file, fileAtCall, shot, dev, call, osc, cancel,
                   prev>>

\* a save that leaves the old file in place and opens it for appending
savetxt_appending(old, t, v) ==
    IF old = <<>> THEN <<[t |-> t, v |-> v]>>
    ELSE <<[t |-> [n |-> old[1].t.n + t.n, delta |-> t.delta], v |-> old[1].v \o v]>>
\* os.remove(filename) of the file `old`, then numpy.savetxt(filename, numpy.c_[t, v],
\* ...): the rows (t[k], v[k])
savetxt(old, t, v) == <<[t |-> t, v |-> v]>>

\* the user asks to cancel between two blocks; get_data has no statement that looks
Cancel ==
    /\ pc = "gd_loop"
    /\ cancel = NotCancelled
    /\ i >= 1
    /\ \/ i < num_blocks_of(info)
       \/ i = num_blocks_of(info) /\ last_block_pts_of(info) # 0
    /\ cancel' = i
    /\ UNCHANGED <<pc, channel, mode, format, filename, info, hasInfo, i, datas, sent, replies,
                   result, err, timeout, timeoutAtCall, oldTimeout, file, fileAtCall, shot,
                   dev, call, osc, prev>>

\* concatenate, the voltages, the time axis, the file, return
GdAssemble ==
    /\ pc = "gd_asm"
    /\ IF datas = <<>>
       THEN \* numpy.concatenate([]) raises ValueError
            /\ pc' = "gd_failed"
            /\ err' = "ValueError"
            /\ UNCHANGED <<result, file>>
       ELSE LET v == Volts(concatenate(datas), info)
                t == arange(info)
            IN  IF filename # "" /\ t.n # SeriesLen(v)
                THEN \* os.remove, then numpy.c_ raises ValueError
                     /\ pc' = "gd_failed"
                     /\ err' = "ValueError"
                     /\ file' = <<>>
                     /\ UNCHANGED result
                ELSE /\ pc' = "gd_done"
                     /\ err' = err
                     /\ result' = << <<t, v>> >>
                     /\ file' = IF filename # "" THEN savetxt(file, t, v) ELSE file
    /\ UNCHANGED <<channel, mode, format, filename, info, hasInfo, i, datas, sent, replies,
                   timeout, timeoutAtCall, oldTimeout, fileAtCall, shot, dev, call, osc, cancel,
                   prev>>

\* ---- get_screenshot
ShotReply == BufCat2(BufCat2(TmcHeader(BufLen(ImageBytes)), ImageBytes),
                     <<[b |-> Terminator, n |-> 1]>>)
\* buf[a:-z]
BufSlice(buf, a, z) ==
    IF BufLen(buf) - z <= a THEN <<>> ELSE BufTake(BufDrop(buf, a), BufLen(buf) - z - a)

SsCall(fn, fmt) ==
    /\ pc = "idle"
    /\ filename' = fn
    /\ format' = fmt
    /\ timeoutAtCall' = timeout
    /\ fileAtCall' = file
    /\ IF fmt \in {"jpeg", "png", "bmp8", "bmp24", "tiff"}
       THEN /\ oldTimeout' = timeout
            /\ timeout' = <<>>
            /\ pc' = "ss_write"
            /\ err' = ""
       ELSE /\ pc' = "ss_failed"
            /\ err' = "AssertionError"
            /\ UNCHANGED <<oldTimeout, timeout>>
    /\ prev' = <<>>
    /\ UNCHANGED <<channel, mode, info, hasInfo, i, datas, sent, replies, result, file,
                   shot, dev, call, osc, cancel>>
SsWrite ==
    /\ visa_write("ss_write", ":disp:data? on,off," \o format, "ss_raw", "ss_failed")
    /\ GdFrame
SsRaw ==
    /\ pc = "ss_raw"
    /\ \/ LET raw_img == BufSlice(ShotReply, HeaderLen, 4)
          IN  /\ sent' = Append(sent, Sent("read_raw", "", TRUE))
              /\ replies' = Append(replies, ShotReply)
              /\ timeout' = oldTimeout
              /\ shot' = IF filename # "" THEN <<raw_img>> ELSE shot
              /\ result' = <<raw_img>>
              /\ pc' = "ss_done"
              /\ err' = err
       \/ Raises("read_raw", "", "ss_failed") /\ UNCHANGED <<replies, timeout, shot, result>>
    /\ UNCHANGED <<channel, mode, format, filename, info, hasInfo, i, datas, timeoutAtCall,
                   oldTimeout, file, fileAtCall, dev, call, osc, cancel,
                   prev>>

\* ---- the caller takes the result or the exception
\* what a caller that calls get_data again has seen of the call before: its arguments,
\* the commands, the outcome (nothing when the transport failed or another operation ran)
Past ==
    IF pc \in {"gd_done", "gd_failed"} /\ err # "VisaIOError"
    THEN <<[args |-> <<channel, mode, filename>>, sent |-> sent, result |-> result,
            err |-> err]>>
    ELSE <<>>
\* a get_data whose list of blocks outlives the call
ReturnKeepingDatas ==
    /\ pc \in {"gd_done", "gd_failed", "ss_done", "ss_failed"}
    /\ pc' = "idle"
    /\ channel' = 1
    /\ mode' = "norm"
    /\ format' = "png"
    /\ filename' = ""
    /\ info' = NoInfo
    /\ hasInfo' = FALSE
    /\ i' = 0
    /\ datas' = datas
    /\ sent' = <<>>
    /\ replies' = <<>>
    /\ result' = <<>>
    /\ err' = ""
    /\ timeoutAtCall' = timeout
    /\ fileAtCall' = file
    /\ oldTimeout' = <<>>
    /\ cancel' = NotCancelled
    /\ prev' = Past
    /\ UNCHANGED <<timeout, file, shot, dev, call, osc>>
Return ==
    /\ pc \in {"gd_done", "gd_failed", "ss_done", "ss_failed"}
    /\ pc' = "idle"
    /\ channel' = 1
    /\ mode' = "norm"
    /\ format' = "png"
    /\ filename' = ""
    /\ info' = NoInfo
    /\ hasInfo' = FALSE
    /\ i' = 0
    /\ datas' = <<>>
    /\ sent' = <<>>
    /\ replies' = <<>>
    /\ result' = <<>>
    /\ err' = ""
    /\ timeoutAtCall' = timeout
    /\ fileAtCall' = file
    /\ oldTimeout' = <<>>
    /\ cancel' = NotCancelled
    /\ prev' = Past
    /\ UNCHANGED <<timeout, file, shot, dev, call, osc>>

\* ---- the command layer's calls; each ends in "cl_done" or "cl_failed"
MenuFrame == UNCHANGED <<mode, format, filename, info, hasInfo, i, datas, replies, result,
                         timeout, timeoutAtCall, oldTimeout, file, fileAtCall, shot, dev,
                         cancel, prev>>
\* CommandMenu.visa_write(cmd) and _Rigol1000zChannel.visa_write(cmd) of a menu with
\* the hierarchy prefix `menu`
menu_write(from, menu, cmd, to) == visa_write(from, menu \o cmd, to, "cl_failed")
\* CommandMenu.visa_ask(cmd)
menu_ask(from, menu, cmd, to) ==
    /\ pc = from
    /\ \/ /\ sent' = Append(sent, Sent("query", menu \o cmd, TRUE))
          /\ pc' = to
          /\ err' = err
       \/ Raises("query", menu \o cmd, "cl_failed")
\* visa_read() and visa_read_raw()
menu_read(from, op, to) ==
    /\ pc = from
    /\ \/ /\ sent' = Append(sent, Sent(op, "", TRUE))
          /\ pc' = to
          /\ err' = err
       \/ Raises(op, "", "cl_failed")

\* a checked setter is called with the value v on the channel object of channel ch
SetCall(name, ch, v) ==
    /\ pc = "idle"
    /\ pc' = IF Setters[name].check = "probe_range" THEN "set_probe" ELSE "set_check"
    /\ channel' = ch
    /\ call' = Frame("set", name, PrefixOf(Setters[name].menu, ch), v)
    /\ UNCHANGED <<sent, err, osc>>
    /\ MenuFrame
\* probe_ratio = self.probe_ratio
SetProbe ==
    /\ menu_ask("set_probe", call.menu, ":prob?", "set_check")
    /\ call' = IF pc' = "set_check" THEN [call EXCEPT !.pr = osc.probe[channel]] ELSE call
    /\ UNCHANGED <<channel, osc>>
    /\ MenuFrame
\* a setter that writes whatever it is given
SetCheckSkipped ==
    /\ pc = "set_check"
    /\ pc' = "set_write"
    /\ UNCHANGED <<err, channel, sent, call, osc>>
    /\ MenuFrame
\* val = val.upper(); assert ...
SetCheck ==
    /\ pc = "set_check"
    /\ pc' = IF SetError(Setters[call.who], call.a, call.pr) = "" THEN "set_write"
             ELSE "cl_failed"
    /\ err' = SetError(Setters[call.who], call.a, call.pr)
    /\ UNCHANGED <<channel, sent, call, osc>>
    /\ MenuFrame
\* self.visa_write(':coup %s' % coupling)
SetWrite ==
    /\ menu_write("set_write", "", SetCommand(Setters[call.who], channel, call.a),
                  IF Setters[call.who].echo = "" THEN "cl_done" ELSE "set_echo")
    /\ UNCHANGED <<channel, call, osc>>
    /\ MenuFrame
\* return self.get_coupling(): the getter's query
SetEcho ==
    /\ pc = "set_echo"
    /\ IF Setters[call.who].menu = ""
       THEN menu_ask("set_echo", "", Setters[call.who].echo, "cl_done")
       ELSE menu_write("set_echo", call.menu, Setters[call.who].echo, "set_read")
    /\ UNCHANGED <<channel, call, osc>>
    /\ MenuFrame
SetRead ==
    /\ menu_read("set_read", "read", "cl_done")
    /\ UNCHANGED <<channel, call, osc>>
    /\ MenuFrame

\* set_memory_depth(pts) of rigol1000z.py, Acquire.memory_depth = val of commands.py
MdCall(who, v) ==
    /\ pc = "idle"
    /\ pc' = "md_ask"
    /\ call' = Frame("md", who, IF who = "memory_depth" THEN ":acq" ELSE "", v)
    /\ UNCHANGED <<channel, sent, err, osc>>
    /\ MenuFrame
\* one more channel asked
Counted(c) == [c EXCEPT !.n = @ + 1, !.en = @ + (IF c.n + 1 \in osc.enabled THEN 1 ELSE 0)]
\* c.enabled() / c.enabled of the next channel: ':chan<n>:disp?'
MdAsk ==
    /\ pc = "md_ask"
    /\ IF call.who = "set_memory_depth"
       THEN /\ menu_write("md_ask", ":chan" \o ToString(call.n + 1), ":disp?", "md_read")
            /\ call' = call
       ELSE /\ menu_ask("md_ask", ":chan" \o ToString(call.n + 1), ":disp?",
                        IF call.n + 1 = 4 THEN "md_check" ELSE "md_ask")
            /\ call' = IF pc' = "cl_failed" THEN call ELSE Counted(call)
    /\ UNCHANGED <<channel, osc>>
    /\ MenuFrame
MdRead ==
    /\ menu_read("md_read", "read", IF call.n + 1 = 4 THEN "md_check" ELSE "md_ask")
    /\ call' = IF pc' = "cl_failed" THEN call ELSE Counted(call)
    /\ UNCHANGED <<channel, osc>>
    /\ MenuFrame
\* the conversion of the depth and the assert for the number of enabled channels
MdCheck ==
    /\ pc = "md_check"
    /\ IF DepthOf(call.who, call.a) = <<>>
       THEN pc' = "cl_failed" /\ err' = "ValueError"
       ELSE IF ~DepthPasses(call.en, DepthOf(call.who, call.a)[1])
       THEN pc' = "cl_failed" /\ err' = "AssertionError"
       ELSE pc' = (IF call.who = "set_memory_depth" THEN "md_run" ELSE "md_write")
            /\ err' = err
    /\ UNCHANGED <<channel, sent, call, osc>>
    /\ MenuFrame
\* self.run()
MdRun ==
    /\ menu_write("md_run", "", ":run", "md_write")
    /\ UNCHANGED <<channel, call, osc>>
    /\ MenuFrame
\* self.visa_write(':acq:mdep %s' % pts) / self.visa_write(f':mdep {val}')
MdCommand(who, v) ==
    (IF who = "set_memory_depth" THEN ":acq:mdep " ELSE ":mdep ")
        \o Text(Spelled("s", DepthOf(who, v)[1]))
MdWrite ==
    /\ menu_write("md_write", call.menu, MdCommand(call.who, call.a), "cl_done")
    /\ UNCHANGED <<channel, call, osc>>
    /\ MenuFrame

\* CommandMenu.visa_write(cmd), visa_ask(cmd), visa_ask_raw(cmd) called on a menu
CmCall(path, menu, leaf) ==
    /\ pc = "idle"
    /\ pc' = "cm_" \o path
    /\ call' = Frame("cm", path, menu, VStr(leaf))
    /\ UNCHANGED <<channel, sent, err, osc>>
    /\ MenuFrame
CmWrite ==
    /\ menu_write("cm_visa_write", call.menu, Text(call.a.c), "cl_done")
    /\ UNCHANGED <<channel, call, osc>>
    /\ MenuFrame
CmAsk ==
    /\ menu_ask("cm_visa_ask", call.menu, Text(call.a.c), "cl_done")
    /\ UNCHANGED <<channel, call, osc>>
    /\ MenuFrame
\* self.visa_write(self.cmd_hierarchy_str + cmd)
CmAskRaw ==
    /\ menu_write("cm_visa_ask_raw", call.menu, call.menu \o Text(call.a.c), "cm_read_raw")
    /\ UNCHANGED <<channel, call, osc>>
    /\ MenuFrame
\* return self.visa_read_raw(num_bytes)
CmReadRaw ==
    /\ menu_read("cm_read_raw", "read_raw", "cl_done")
    /\ UNCHANGED <<channel, call, osc>>
    /\ MenuFrame

\* the caller takes the result or the exception of the command-layer call
MenuReturn ==
    /\ pc \in {"cl_done", "cl_failed"}
    /\ pc' = "idle"
    /\ channel' = 1
    /\ sent' = <<>>
    /\ err' = ""
    /\ call' = NoCall
    /\ UNCHANGED osc
    /\ MenuFrame


Next ==
    \/ \E a \in GdArgs : GdCall(a[1], a[2], a[3])
    \/ GdStop
    \/ GdSour
    \/ GdMode
    \/ GdForm
    \/ GdPreamble
    \/ GdStar
    \/ GdStopW
    \/ GdData
    \/ GdRaw
    \/ GdLoopExit
    \/ Cancel
    \/ GdAssemble
    \/ \E fn \in {"", "shot.png"}, fmt \in ImageFormats : SsCall(fn, fmt)
    \/ SsWrite
    \/ SsRaw
    \/ Return

Spec == Init /\ [][Next]_vars

\* ---- the command layer on its own: an instrument with some channels shown
MenuInit ==
    /\ pc = "idle"
    /\ channel = 1
    /\ mode = "norm"
    /\ format = "png"
    /\ filename = ""
    /\ info = NoInfo
    /\ hasInfo = FALSE
    /\ i = 0
    /\ datas = <<>>
    /\ sent = <<>>
    /\ replies = <<>>
    /\ result = <<>>
    /\ err = ""
    /\ timeout = <<2000>>
    /\ timeoutAtCall = timeout
    /\ oldTimeout = <<>>
    /\ file = <<>>
    /\ fileAtCall = file
    /\ shot = <<>>
    /\ dev = [pre |-> Join(BaseFields), at |-> 0, kind |-> "none"]
    /\ cancel = NotCancelled
    /\ prev = <<>>
    /\ call = NoCall
    /\ osc \in OscChoices
SetterChannels == {1, 3}
MenuNext ==
    \/ \E name \in DOMAIN Setters, ch \in SetterChannels :
          \E v \in SetterInputs(Setters[name]) : SetCall(name, ch, v)
    \/ SetProbe
    \/ SetCheck
    \/ SetWrite
    \/ SetEcho
    \/ SetRead
    \/ \E who \in {"set_memory_depth", "memory_depth"}, v \in DepthInputs : MdCall(who, v)
    \/ MdAsk
    \/ MdRead
    \/ MdCheck
    \/ MdRun
    \/ MdWrite
    \/ \E path \in {"visa_write", "visa_ask", "visa_ask_raw"}, menu \in MenuPrefixes,
          leaf \in MenuLeaves : CmCall(path, menu, leaf)
    \/ CmWrite
    \/ CmAsk
    \/ CmAskRaw
    \/ CmReadRaw
    \/ MenuReturn

MenuSpec == MenuInit /\ [][MenuNext]_vars
\* ---- what the runs of get_data are observed by
GdStates == {"gd_stop", "gd_sour", "gd_mode", "gd_form", "gd_pre", "gd_loop", "gd_stopw",
             "gd_data", "gd_raw", "gd_asm", "gd_done", "gd_failed"}
InGetData == pc \in GdStates
\* the block loop has ended (the operation is at, or past, the concatenation)
LoopEnded == hasInfo /\ (pc = "gd_asm" \/ (pc \in {"gd_done", "gd_failed"} /\ err # "VisaIOError"))
\* the numbers of the ':wav:star' (':wav:stop') commands written, in order
Written(head) ==
    LET w == SelectSeq(sent, LAMBDA e : e.op = "write" /\ e.ok /\ DevNumber(e.cmd, head) # -1)
    IN  [k \in 1..Len(w) |-> DevNumber(w[k].cmd, head)]
Starts == Written(":wav:star ")
Stops == Written(":wav:stop ")
\* the commands get_data may send once the preamble is in
LoopCommand(e) ==
    \/ e.op = "read_raw"
    \/ e.op = "write" /\ e.cmd = ":wav:data?"
    \/ e.op = "write" /\ DevNumber(e.cmd, ":wav:star ") # -1
    \/ e.op = "write" /\ DevNumber(e.cmd, ":wav:stop ") # -1
TotalSamples == IF datas = <<>> THEN 0 ELSE BufLen(concatenate(datas))
WellFormedReplies == dev.kind = "none"

\* C1: the (start, stop) windows get_data writes are ascending, contiguous from 1 and
\* non-overlapping, every window but the last holds exactly one block and the last at
\* most one, and once the loop has ended they cover exactly [1, points]: none at all
\* for 0 points, and no trailing empty request when points is a multiple of the block.
C1_WindowsPartition ==
    (InGetData /\ hasInfo /\ info.points >= 0) =>
        LET starts == Starts
            stops == Stops
        IN  /\ \A k \in (SetupLen + 1)..Len(sent) : LoopCommand(sent[k])
            /\ Len(stops) <= Len(starts) /\ Len(starts) <= Len(stops) + 1
            /\ \A k \in 1..Len(starts) : starts[k] = (IF k = 1 THEN 1 ELSE stops[k - 1] + 1)
            /\ \A k \in 1..Len(stops) :
                  /\ starts[k] <= stops[k]
                  /\ stops[k] - starts[k] + 1 <= max_num_pts
                  /\ k < Len(starts) => stops[k] - starts[k] + 1 = max_num_pts
            /\ LoopEnded =>
                  /\ Len(starts) = Len(stops)
                  /\ info.points = (IF stops = <<>> THEN 0 ELSE stops[Len(stops)])
C1_Witness ==
    /\ pc = "gd_asm"
    /\ info.points = 2 * max_num_pts + SegLen
    /\ Starts = <<1, max_num_pts + 1, 2 * max_num_pts + 1>>
    /\ Stops = <<max_num_pts, 2 * max_num_pts, 2 * max_num_pts + SegLen>>

\* C2: whenever get_data returns a series from well-formed replies, the time axis and
\* the voltages both have exactly `points` entries.
C2_SeriesLengths ==
    (pc = "gd_done" /\ WellFormedReplies) =>
        /\ result[1][1].n = info.points
        /\ SeriesLen(result[1][2]) = info.points

\* C3: the samples get_data accumulates from a raw block reply are the reply without its
\* first 11 bytes and without its final byte.
C3_HeaderAndTerminatorStripped ==
    InGetData =>
        \A k \in 1..Len(datas) : datas[k] = frombuffer_B(BufSlice(replies[k], HeaderLen, 1))

\* C4: when the preamble reports 0 points, get_data requests no block and completes
\* with an empty series.
C4_ZeroPointsCompletes ==
    (pc \in {"gd_done", "gd_failed"} /\ hasInfo /\ info.points = 0) =>
        /\ pc = "gd_done"
        /\ Starts = <<>> /\ Stops = <<>>
        /\ result[1][1].n = 0 /\ result[1][2] = <<>>

\* C5: when the samples received over all blocks are not `points` many, get_data fails,
\* returns no series and writes no file.
C5_MismatchFails ==
    (pc \in {"gd_done", "gd_failed"} /\ LoopEnded /\ info.points >= 0
        /\ TotalSamples # info.points) =>
        /\ pc = "gd_failed"
        /\ result = <<>>
        /\ file = fileAtCall
\* the preamble reply has been received
PreambleAnswered ==
    /\ InGetData
    /\ Len(sent) >= SetupLen
    /\ sent[SetupLen] = Sent("query", ":wav:pre?", TRUE)
PreambleText == split_(dev.pre)
IsNumeric(s) == IsFloatLit(s)
\* the first ten fields are there and int() and float() take them
FirstTenParse(pre) ==
    /\ Len(pre) >= 10
    /\ \A k \in 1..4 : IsIntLit(pre[k])
    /\ \A k \in 5..10 : IsFloatLit(pre[k])

\* the ten values of a reply whose first ten fields parse, in the order of the fields
FirstTenDecoded(pre) ==
    [format     |-> PyInt(pre[1]),
     type       |-> PyInt(pre[2]),
     points     |-> PyInt(pre[3]),
     count      |-> PyInt(pre[4]),
     xincrement |-> PyFloat(pre[5]),
     xorigin    |-> PyFloat(pre[6]),
     xreference |-> PyFloat(pre[7]),
     yincrement |-> PyFloat(pre[8]),
     yorigin    |-> PyFloat(pre[9]),
     yreference |-> PyFloat(pre[10])]
\* per reply: <<the ten values>> , or <<>> when decoding has to fail
ExpectedPreamble ==
    [r \in PreambleReplies |->
        IF FirstTenParse(Split(r)) THEN <<FirstTenDecoded(Split(r))>> ELSE <<>>]

\* C6 as stated: decoding the preamble fails whenever the reply does not have exactly
\* 10 comma-separated fields or a field is not numeric.
C6_ExactlyTenFields ==
    (PreambleAnswered /\ hasInfo) =>
        /\ Len(PreambleText) = 10
        /\ \A k \in 1..Len(PreambleText) : IsNumeric(PreambleText[k])
\* C6: decoding the preamble fails, with no preamble produced, exactly when the reply
\* has fewer than 10 comma-separated fields, one of its first four is not an integer
\* literal or one of its fields 5 to 10 is not a float literal; otherwise it yields
\* format, type, points, count, x-increment, x-origin, x-reference, y-increment,
\* y-origin and y-reference from the first ten fields in that order, whatever follows.
C6_PreambleDecoding ==
    PreambleAnswered =>
        LET want == ExpectedPreamble[dev.pre]
        IN  /\ hasInfo <=> want # <<>>
            /\ ~hasInfo => pc = "gd_failed" /\ err \in {"IndexError", "ValueError"}
            /\ hasInfo => info = want[1]
C6_Witness ==
    /\ pc = "gd_loop"
    /\ hasInfo
    /\ Len(PreambleText) = 11
    /\ ~IsNumeric(PreambleText[11])
    /\ info.points = 3

\* C7: a raw reply shorter than 12 bytes makes get_data fail; nothing of it is taken
\* as samples.
C7_ShortReplyAborts ==
    (InGetData /\ \E k \in 1..Len(replies) : BufLen(replies[k]) < HeaderLen + 1) =>
        /\ pc = "gd_failed"
        /\ Len(datas) < Len(replies)

\* C8: get_data sends ':stop', the source selection, the mode, the format and the
\* preamble query in that order; a read window or ':wav:data?' is sent only after the
\* preamble reply is in; the series is produced only after the last block was read.
C8_PhaseOrder ==
    InGetData =>
        /\ \A k \in 1..Len(sent) :
              IF k <= SetupLen
              THEN /\ sent[k].cmd = <<":stop", ":wav:sour chan" \o ToString(channel),
                                      ":wav:mode " \o mode, ":wav:form byte",
                                      ":wav:pre?">>[k]
                   /\ sent[k].op = (IF k < SetupLen THEN "write" ELSE "query")
                   /\ k < Len(sent) => sent[k].ok
              ELSE /\ LoopCommand(sent[k])
                   /\ hasInfo
        /\ result # <<>> =>
              /\ Len(datas) = NumWindows(info.points)
              /\ sent[Len(sent)] = Sent("read_raw", "", TRUE)
C8_Witness ==
    /\ pc = "gd_done"
    /\ channel = 1
    /\ mode = "norm"
    /\ Len(datas) = 2
    /\ Len(sent) = SetupLen + 8

\* C9: when get_data is left, with a series or with an error, the transport timeout
\* is the one the caller had set.
C9_TimeoutRestoredOnExit ==
    pc \in {"gd_done", "gd_failed"} => timeout = timeoutAtCall
C9_Witness ==
    /\ pc = "gd_failed"
    /\ err = "VisaIOError"
    /\ Len(replies) = 1
    /\ sent[Len(sent)] = Sent("read_raw", "", FALSE)
    /\ timeout = <<2000>>

\* C10 as stated: the timeout is extended or unbounded exactly while a raw block read
\* is in progress, and the caller's value during every other command.
C10_ExtendedAroundRawRead ==
    InGetData =>
        IF pc = "gd_raw" THEN timeout = <<>> ELSE timeout = timeoutAtCall
\* C10: get_data never changes the transport timeout: it is the caller's value during
\* every command of the acquisition, the raw block read included.
C10_TimeoutUntouched ==
    (InGetData /\ pc \notin {"gd_done", "gd_failed"}) => timeout = timeoutAtCall
C10_Witness ==
    /\ pc = "gd_raw"
    /\ Len(replies) = 1
    /\ timeoutAtCall = <<2000>>
    /\ timeout = <<2000>>
\* the commands of Rigol1000z.autoscale, run, force and set_single_shot
RunCommands == {":aut", ":run", ":tfor", ":sing"}

\* C11: get_data sends ':stop' before anything else and never sends a run, single,
\* force or autoscale command, whether it ends with a series or with an error.
C11_StopFirstNeverRun ==
    InGetData =>
        /\ (pc # "gd_stop" /\ err # "AssertionError") => sent # <<>>
        /\ sent # <<>> => sent[1].op = "write" /\ sent[1].cmd = ":stop"
        /\ \A k \in 1..Len(sent) : sent[k].cmd \notin RunCommands
C11_Witness ==
    /\ pc = "gd_failed"
    /\ err = "ValueError"
    /\ Len(sent) > SetupLen
    /\ sent[1] = Sent("write", ":stop", TRUE)
\* C12: when a transport call of get_data fails, nothing is sent after the failing
\* call (the block is not requested again), get_data ends with the transport error,
\* returns no series, and the output file is neither removed nor written.
C12_TransportFailureAborts ==
    InGetData =>
        \A k \in 1..Len(sent) :
            ~sent[k].ok =>
                /\ k = Len(sent)
                /\ pc = "gd_failed"
                /\ err = "VisaIOError"
                /\ result = <<>>
                /\ file = fileAtCall
C12_Witness ==
    /\ pc = "gd_failed"
    /\ filename # ""
    /\ fileAtCall = <<OldContent>>
    /\ file = <<OldContent>>
    /\ Len(datas) = 1
    /\ sent[Len(sent)] = Sent("read_raw", "", FALSE)
\* C13: when cancellation is requested between two blocks, get_data requests no
\* further block and ends in failure with a Cancelled error, its timeout restored.
C13_CancelBetweenBlocks ==
    (InGetData /\ cancel # NotCancelled) =>
        /\ Len(Starts) = cancel
        /\ pc \in {"gd_loop", "gd_failed"}
        /\ pc = "gd_failed" => err = "Cancelled" /\ result = <<>> /\ timeout = timeoutAtCall
\* C14: the progress of the block loop is blocks completed / blocks planned: the
\* planned total is the number of block requests issued for the point count, the
\* completed count after the k-th block is k, and when the loop ends completed
\* equals planned, for exact multiples of the block size too.
C14_ProgressReachesTotal ==
    (InGetData /\ hasInfo /\ info.points >= 0) =>
        /\ tqdm_total(info) = NumWindows(info.points)
        /\ tqdm_n(i) = Len(datas)
        /\ LoopEnded => tqdm_n(i) = tqdm_total(info)
\* C15: after get_data has succeeded with a filename, the file holds exactly the rows
\* of this acquisition, one per sample, whatever it held before; without a filename
\* get_data removes, creates and writes no file.
C15_FileReplaced ==
    InGetData =>
        /\ filename = "" => file = fileAtCall
        /\ (filename # "" /\ pc = "gd_done") =>
              /\ file = <<[t |-> result[1][1], v |-> result[1][2]]>>
              /\ file[1].t.n = SeriesLen(file[1].v)
              /\ SeriesLen(file[1].v) = TotalSamples
C15_Witness ==
    /\ pc = "gd_done"
    /\ filename # ""
    /\ fileAtCall = <<OldContent>>
    /\ file # fileAtCall
    /\ Len(datas) = 1
    /\ SeriesLen(file[1].v) > 1
\* the y-increment 0.1, y-origin 0 and y-reference 127 the preambles report
YIncrement == PyFloat(<<"0", ".", "1">>)
YOrigin == FFromInt(0)
YReference == FFromInt(127)
SampleCodes == {127, 137, 117, 10}
ExpectedVolt ==
    [c \in SampleCodes |-> FMul(FSub(FSub(FFromInt(c), YOrigin), YReference), YIncrement)]

\* C16: every accumulated sample code c is an unsigned byte and becomes
\* v = (c - y_origin - y_reference) * y_increment, element by element in order; with
\* y_increment 0.1, y_origin 0 and y_reference 127 the codes 127, 137, 117 give 0.0,
\* 1.0 and -1.0.
C16_VoltageConversion ==
    (pc = "gd_done" /\ info.yincrement = YIncrement /\ info.yorigin = YOrigin
        /\ info.yreference = YReference) =>
        LET samples == concatenate(datas)
            v == result[1][2]
        IN  /\ Len(v) = Len(samples)
            /\ \A k \in 1..Len(samples) :
                  /\ samples[k].b \in 0..255
                  /\ v[k].n = samples[k].n
                  /\ samples[k].b \in SampleCodes
                  /\ v[k].x = ExpectedVolt[samples[k].b]
                  /\ samples[k].b = 127 => v[k].x = FZero(FALSE)
                  /\ samples[k].b = 137 => v[k].x = FFromInt(1)
                  /\ samples[k].b = 117 => v[k].x = FFromInt(-1)
C16_Witness ==
    /\ pc = "gd_done"
    /\ info.yincrement = YIncrement /\ info.yorigin = YOrigin /\ info.yreference = YReference
    /\ Len(result[1][2]) >= 3
    /\ datas[1][1].b = 127 /\ result[1][2][1].x = FZero(FALSE)
    /\ datas[1][2].b = 137 /\ result[1][2][2].x = FFromInt(1)
    /\ datas[1][3].b = 117 /\ result[1][2][3].x = FFromInt(-1)
\* C17: the time axis get_data returns is t[k] = k * x_increment for k in
\* [0, points): it starts at 0 with step x_increment and has exactly `points` entries.
C17_TimeAxis ==
    pc = "gd_done" =>
        /\ result[1][1].delta = info.xincrement
        /\ result[1][1].n = info.points
\* C18: two calls of get_data in immediate succession with the same arguments, against
\* a transport that gives the same replies to the same commands, send the same command
\* sequence and end the same way, with series of the same lengths and values.
C18_Repeatable ==
    (pc \in {"gd_done", "gd_failed"} /\ err # "VisaIOError" /\ prev # <<>>) =>
        /\ prev[1].args = <<channel, mode, filename>>
        /\ sent = prev[1].sent
        /\ err = prev[1].err
        /\ result = prev[1].result
C18_Witness ==
    /\ pc = "gd_done"
    /\ prev # <<>>
    /\ prev[1].result = result
    /\ Len(datas) = 3
    /\ Len(sent) = Len(prev[1].sent)
\* C19: every iteration that transfers data sends ':wav:star s', ':wav:stop e', one
\* ':wav:data?' and one raw read, in that order, the next window only after the raw
\* reply of the one before; every (s, e) has 1 <= s <= e <= points and at most 250000
\* points; each planned window is requested exactly once.
C19_RoundTrips ==
    (InGetData /\ hasInfo) =>
        LET starts == Starts
            stops == Stops
        IN  /\ \A k \in (SetupLen + 1)..Len(sent) :
                  LET step == (k - SetupLen - 1) % 4
                      e == sent[k]
                  IN  /\ step = 0 => e.op = "write" /\ DevNumber(e.cmd, ":wav:star ") # -1
                      /\ step = 1 => e.op = "write" /\ DevNumber(e.cmd, ":wav:stop ") # -1
                      /\ step = 2 => e = Sent("write", ":wav:data?", e.ok)
                      /\ step = 3 => e.op = "read_raw"
                      /\ k < Len(sent) => e.ok
            /\ \A k \in 1..Len(stops) :
                  /\ 1 <= starts[k] /\ starts[k] <= stops[k] /\ stops[k] <= info.points
                  /\ stops[k] - starts[k] + 1 <= max_num_pts
            /\ \A j, k \in 1..Len(starts) : j < k => starts[j] < starts[k]
            /\ Len(starts) <= NumWindows(info.points)
            /\ LoopEnded =>
                  Len(starts) = NumWindows(info.points) /\ Len(datas) = Len(starts)
C19_Witness ==
    /\ pc = "gd_loop"
    /\ info.points = 2 * max_num_pts + 3
    /\ i = 2
    /\ Len(sent) = SetupLen + 8
    /\ sent[Len(sent)] = Sent("read_raw", "", TRUE)
\* C20: the assembled sample buffer is the concatenation of the block payloads in
\* request order: the k-th chunk is the payload of the reply to the k-th window, and
\* the sample at buffer position p is the device's sample for point p + 1.
C20_BufferIsPayloads ==
    (pc = "gd_asm" /\ WellFormedReplies /\ datas # <<>>) =>
        LET starts == Starts
            stops == Stops
        IN  /\ Len(datas) = Len(starts)
            /\ \A k \in 1..Len(datas) : datas[k] = DevPayload(starts[k], stops[k])
            /\ concatenate(datas) = DevPayload(1, info.points)

\* C21: on every exit path of get_screenshot, the return and the exception of the
\* write or of the raw read alike, the transport timeout is the one the caller had
\* set before the call.
C21_ShotTimeoutRestoredOnExit ==
    pc \in {"ss_done", "ss_failed"} => timeout = timeoutAtCall

\* ---- what the command layer's calls are observed by
\* the transport calls that went through and carry a command
Commands == {k \in 1..Len(sent) : sent[k].ok /\ sent[k].op \in {"write", "query"}}
\* the number of channels the instrument shows
NumEnabled == Cardinality(osc.enabled)

\* C22: every command string a CommandMenu sends, through visa_write, visa_ask or
\* visa_ask_raw, is the menu's cmd_hierarchy_str followed by the leaf command: the
\* prefix is applied exactly once on each of the three paths.
C22_PrefixAppliedOnce ==
    call.op = "cm" =>
        \A k \in 1..Len(sent) :
            sent[k].op \in {"write", "query"} => sent[k].cmd = call.menu \o Text(call.a.c)

\* C23: with 0 to 4 channels enabled, the memory-depth command is written only when
\* the depth is AUTO or one of the depths of that channel count (1: 12000..24000000,
\* 2: 6000..12000000, 3 or 4: 3000..6000000); any other depth fails and the depth
\* command is not written.
C23_DepthWrittenOnlyIfPermitted ==
    (call.op = "md" /\ DepthOf(call.who, call.a) # <<>>) =>
        LET pts == DepthOf(call.who, call.a)[1]
        IN  (\E k \in Commands : sent[k].cmd = call.menu \o MdCommand(call.who, call.a))
                => \/ pts = Auto
                   \/ NumEnabled \in 1..4 /\ pts.n \in DepthsFor(NumEnabled)

\* the set commands written in the call of a setter: the writes but the getter's query
SetWrites ==
    {k \in 1..Len(sent) : sent[k].op = "write"
                          /\ sent[k].cmd # call.menu \o Setters[call.who].echo}
\* the number the instrument reads in the set command for the argument v
Received(st, v) == PyFloat(spelled_(st.fmt, v))
\* |x - y| <= |y| / 20000: x is y to five significant digits
FiveDigits(x, y) ==
    FLeq(FMul([FSub(x, y) EXCEPT !.neg = FALSE], FFromInt(20000)), [y EXCEPT !.neg = FALSE])
\* a setter's call: a value outside the range or set fails before any set command is
\* written, a value inside results in exactly one set command, that of the setter
Checked ==
    LET st == Setters[call.who]
        e == SetError(st, call.a, call.pr)
    IN  /\ (e # "" /\ pc \notin {"set_probe", "set_check"}) =>
              pc = "cl_failed" /\ SetWrites = {}
        /\ (pc = "cl_failed" /\ err # "VisaIOError") => err = e /\ e # "" /\ SetWrites = {}
        /\ SetWrites # {} =>
              /\ e = ""
              /\ Cardinality(SetWrites) = 1
              /\ \A k \in SetWrites :
                    sent[k].cmd = call.menu \o st.head \o Text(spelled_(st.fmt, Normal(st, call.a)))
        /\ pc = "cl_done" => Cardinality(SetWrites) = 1
\* C24 as stated: a value outside the allowed range or set makes the setter fail before
\* any set command is written; a value inside results in exactly one set command, and
\* the number in it is that value.
C24_OneCommandWithTheValue ==
    call.op = "set" =>
        /\ Checked
        /\ (pc = "cl_done" /\ call.a.t # "str") =>
              Received(Setters[call.who], call.a) = call.a.f
\* C24: a value outside the allowed range or set makes the setter fail before any set
\* command is written; a value inside results in exactly one set command, which
\* carries the value as the setter formats it: a text as it is after upper() or
\* lower(), a probe ratio of rigol1000z.py ('%s') and an averaging count ('%i') exactly,
\* every other number ('%.4e') rounded to five significant digits.
C24_OneCommandWithTheFormattedValue ==
    call.op = "set" =>
        /\ Checked
        /\ (pc = "cl_done" /\ call.a.t # "str") =>
              IF Setters[call.who].fmt = "e"
              THEN FiveDigits(Received(Setters[call.who], call.a), call.a.f)
              ELSE Received(Setters[call.who], call.a) = call.a.f
C24_Witness ==
    /\ call.op = "set"
    /\ pc = "cl_done"
    /\ call.who = "set_offset_V"
    /\ call.a = VFloat(<<"0", ".", "1", "2", "3", "4", "5", "6">>)
    /\ Len(sent) = 3
    /\ sent[1] = Sent("write", ":chan3:off 1.2346e-01", TRUE)

=============================================================================
